---- MODULE Spec2Model ----
(***************************************************************************)
(* goofy: the 6-digit hash ID generator of src/goofy.py.                   *)
(*                                                                         *)
(* A Python str is a sequence of code points, a bytes object a sequence of *)
(* integers 0..255.  A Python int is unbounded; here it is a BigNat: the   *)
(* little-endian sequence of its base-256 limbs without leading zero       *)
(* limbs (zero is the empty sequence), so that the 64-bit arithmetic of    *)
(* the hash is exact.                                                      *)
(***************************************************************************)
EXTENDS Integers, Sequences, FiniteSets

\* ------------------------------------------------------------ bounds
\* Longest tail of arbitrary characters that follows the ASCII padding.
MaxTailLen == 2
\* Paddings of MAX_BYTES - PadWindow .. MAX_BYTES ASCII characters are tried.
PadWindow == 5
\* truncate_utf8 is called directly with max_bytes in 0..MaxBytesArg.
MaxBytesArg == 6

\* ------------------------------------------------------------ Python int
Base == 256

Min(a, b) == IF a <= b THEN a ELSE b

RECURSIVE Norm(_)
\* The canonical form of a limb sequence: no most-significant zero limbs.
Norm(a) ==
    IF a = <<>> THEN <<>>
    ELSE IF a[Len(a)] = 0 THEN Norm(SubSeq(a, 1, Len(a) - 1))
    ELSE a

RECURSIVE FromInt(_)
\* A small non-negative integer as a BigNat.
FromInt(n) == IF n = 0 THEN <<>> ELSE <<n % Base>> \o FromInt(n \div Base)

\* Limb i of a; 0 beyond its most significant limb and below its least.
Limb(a, i) == IF i >= 1 /\ i <= Len(a) THEN a[i] ELSE 0

RECURSIVE AddFrom(_, _, _, _)
AddFrom(a, b, i, carry) ==
    IF i > Len(a) /\ i > Len(b)
    THEN (IF carry = 0 THEN <<>> ELSE <<carry>>)
    ELSE LET t == Limb(a, i) + Limb(b, i) + carry
         IN  <<t % Base>> \o AddFrom(a, b, i + 1, t \div Base)

\* a + b
BigAdd(a, b) == Norm(AddFrom(a, b, 1, 0))

RECURSIVE ColSum(_, _, _, _)
\* Column k of the schoolbook product: the sum of a[k + 1 - j] * b[j], j from
\* the given one on.
ColSum(a, b, k, j) ==
    IF j > Len(b) THEN 0
    ELSE Limb(a, k + 1 - j) * b[j] + ColSum(a, b, k, j + 1)

RECURSIVE MulFrom(_, _, _, _)
\* The limbs k, k + 1, ... of a * b, given the carry into column k.
MulFrom(a, b, k, carry) ==
    IF k > Len(a) + Len(b) THEN <<>>
    ELSE LET t == ColSum(a, b, k, 1) + carry
         IN  <<t % Base>> \o MulFrom(a, b, k + 1, t \div Base)

\* a * b (schoolbook multiplication, exact)
BigMul(a, b) == Norm(MulFrom(a, b, 1, 0))

RECURSIVE BitXor(_, _)
BitXor(x, y) ==
    IF x = 0 THEN y
    ELSE IF y = 0 THEN x
    ELSE ((x + y) % 2) + 2 * BitXor(x \div 2, y \div 2)

RECURSIVE BitAnd(_, _)
BitAnd(x, y) ==
    IF x = 0 \/ y = 0 THEN 0
    ELSE ((x % 2) * (y % 2)) + 2 * BitAnd(x \div 2, y \div 2)

\* a ^ b
BigXor(a, b) ==
    LET n == IF Len(a) >= Len(b) THEN Len(a) ELSE Len(b)
    IN  Norm([i \in 1..n |-> BitXor(Limb(a, i), Limb(b, i))])

\* a & b
BigAnd(a, b) ==
    Norm([i \in 1..Min(Len(a), Len(b)) |-> BitAnd(a[i], b[i])])

RECURSIVE ModUpTo(_, _, _)
\* The value of the limbs i..Len(a) of a, modulo m (Horner's rule).
ModUpTo(a, m, i) ==
    IF i > Len(a) THEN 0
    ELSE (ModUpTo(a, m, i + 1) * Base + a[i]) % m

\* a % m for a small modulus m, as an ordinary integer
BigMod(a, m) == ModUpTo(a, m, 1)

\* TRUE, once v has been evaluated: an accumulator tested with it is a value,
\* not a pending computation, when the next iteration starts.
Evaluated(v) == v = v

RECURSIVE DecFrom(_, _, _)
DecFrom(digits, i, acc) ==
    IF Evaluated(acc) /\ i <= Len(digits)
    THEN DecFrom(digits, i + 1, BigAdd(BigMul(acc, <<10>>), FromInt(digits[i])))
    ELSE acc

\* The integer a decimal literal denotes, digit by digit.
FromDecimal(digits) == DecFrom(digits, 1, <<>>)

\* ------------------------------------------------------------ Python str, bytes
\* seq[lo:hi] for 0 <= lo, 0 <= hi
PySlice(seq, lo, hi) == SubSeq(seq, lo + 1, Min(hi, Len(seq)))

\* The UTF-8 encoding of one code point (not a surrogate).
EncodeChar(c) ==
    IF c < 128 THEN <<c>>
    ELSE IF c < 2048 THEN <<192 + (c \div 64), 128 + (c % 64)>>
    ELSE IF c < 65536
         THEN <<224 + (c \div 4096), 128 + ((c \div 64) % 64), 128 + (c % 64)>>
    ELSE <<240 + (c \div 262144), 128 + ((c \div 4096) % 64),
           128 + ((c \div 64) % 64), 128 + (c % 64)>>

RECURSIVE EncodeFrom(_, _)
EncodeFrom(str, i) ==
    IF i > Len(str) THEN <<>> ELSE EncodeChar(str[i]) \o EncodeFrom(str, i + 1)

\* str.encode('utf-8')
Encode(str) == EncodeFrom(str, 1)

\* The length of the sequence a lead byte announces, 0 for a byte that starts none.
SeqLen(b) ==
    IF b < 128 THEN 1
    ELSE IF b >= 194 /\ b <= 223 THEN 2
    ELSE IF b >= 224 /\ b <= 239 THEN 3
    ELSE IF b >= 240 /\ b <= 244 THEN 4
    ELSE 0

\* The second byte a lead byte admits (no overlong form, no surrogate, nothing
\* above U+10FFFF).
SecondOk(lead, b) ==
    IF lead = 224 THEN b >= 160 /\ b <= 191
    ELSE IF lead = 237 THEN b >= 128 /\ b <= 159
    ELSE IF lead = 240 THEN b >= 144 /\ b <= 191
    ELSE IF lead = 244 THEN b >= 128 /\ b <= 143
    ELSE b >= 128 /\ b <= 191

RECURSIVE DecodesFrom(_, _)
DecodesFrom(b, i) ==
    IF i > Len(b) THEN TRUE
    ELSE LET n == SeqLen(b[i])
         IN  /\ n > 0
             /\ i + n - 1 <= Len(b)
             /\ n >= 2 => SecondOk(b[i], b[i + 1])
             /\ \A k \in 2..(n - 1) : b[i + k] >= 128 /\ b[i + k] <= 191
             /\ DecodesFrom(b, i + n)

\* b.decode('utf-8') raises no UnicodeDecodeError
Decodes(b) == DecodesFrom(b, 1)

\* ------------------------------------------------------------ goofy.py
MAX_BYTES == 32

\* (byte & 0b11000000) == 0b10000000
IsContinuation(byte) == BitAnd(byte, 192) = 128

RECURSIVE WalkBack(_, _)
\* The loop over i = len(truncated) - 1 .. 0, from index i on.
WalkBack(truncated, i) ==
    IF i < 0 THEN <<>>
    ELSE IF ~IsContinuation(truncated[i + 1])
            /\ Decodes(PySlice(truncated, 0, i + 1))
         THEN PySlice(truncated, 0, i + 1)
    ELSE WalkBack(truncated, i - 1)

\* Mutant: the first max_bytes bytes, with no walk back to a boundary.
truncate_utf8_cut(str, max_bytes) ==
    PySlice(Encode(str), 0, max_bytes)

\* Mutant: "<" for "<=" in the test that returns the encoding as it is.
truncate_utf8_less(str, max_bytes) ==
    LET encoded == Encode(str)
        truncated == PySlice(encoded, 0, max_bytes)
    IN  IF Len(encoded) < max_bytes THEN encoded
        ELSE WalkBack(truncated, Len(truncated) - 1)

\* Mutant: the walk back starts after a whole-prefix decode, so a character
\* that ends exactly at max_bytes is kept.
truncate_utf8_keep(str, max_bytes) ==
    LET encoded == Encode(str)
        truncated == PySlice(encoded, 0, max_bytes)
    IN  IF Len(encoded) <= max_bytes THEN encoded
        ELSE IF Decodes(truncated) THEN truncated
        ELSE WalkBack(truncated, Len(truncated) - 1)

truncate_utf8(str, max_bytes) ==
    LET encoded == Encode(str)
        truncated == PySlice(encoded, 0, max_bytes)
    IN  IF Len(encoded) <= max_bytes THEN encoded
        ELSE WalkBack(truncated, Len(truncated) - 1)

\* Mutant: the standard FNV-1a 64-bit offset basis.
OFFSET64_standard ==
    FromDecimal(<<1, 4, 6, 9, 5, 9, 8, 1, 0, 3, 9, 3, 4, 6, 6, 5, 6, 0, 3, 7>>)

\* OFFSET64 = 1469598103934665603
OFFSET64 ==
    FromDecimal(<<1, 4, 6, 9, 5, 9, 8, 1, 0, 3, 9, 3, 4, 6, 6, 5, 6, 0, 3>>)

\* PRIME64 = 1099511628211
PRIME64 == FromDecimal(<<1, 0, 9, 9, 5, 1, 1, 6, 2, 8, 2, 1, 1>>)

\* MASK64 = 0xFFFFFFFFFFFFFFFF
MASK64 == <<255, 255, 255, 255, 255, 255, 255, 255>>

\* Mutant: the product is not masked to 64 bits.
FnvStep_nomask(acc, byte) ==
    BigMul(BigXor(acc, FromInt(byte)), PRIME64)

\* One iteration of the loop: h ^= byte; h = (h * PRIME64) & MASK64
FnvStep(acc, byte) ==
    BigAnd(BigMul(BigXor(acc, FromInt(byte)), PRIME64), MASK64)

RECURSIVE HashFrom(_, _, _)
\* The loop "for byte in bytes_data" from index i on, with accumulator acc.
HashFrom(acc, bytes, i) ==
    IF Evaluated(acc) /\ i <= Len(bytes)
    THEN HashFrom(FnvStep(acc, bytes[i]), bytes, i + 1)
    ELSE acc

RECURSIVE DecimalDigits(_)
\* The decimal digits of n >= 0 as characters, most significant first.
DecimalDigits(n) ==
    IF n < 10 THEN <<48 + n>>
    ELSE DecimalDigits(n \div 10) \o <<48 + (n % 10)>>

RECURSIVE ZeroPad(_, _)
ZeroPad(str, width) ==
    IF Len(str) >= width THEN str ELSE ZeroPad(<<48>> \o str, width)

\* Mutant: "{:d}" for "{:06d}".
Format06d_nopad(n) == DecimalDigits(n)

\* f"{n:06d}"
Format06d(n) == ZeroPad(DecimalDigits(n), 6)

\* Mutant: the second and the third group change places.
Grouped_swap(result) ==
    PySlice(result, 0, 2) \o <<32>> \o PySlice(result, 4, 6) \o <<32>>
        \o PySlice(result, 2, 4)

\* f"{result[0:2]} {result[2:4]} {result[4:6]}"
Grouped(result) ==
    PySlice(result, 0, 2) \o <<32>> \o PySlice(result, 2, 4) \o <<32>>
        \o PySlice(result, 4, 6)

\* Lines 110-115: the hash as a 6-digit string, optionally spaced.
FormatId(acc, sp) ==
    LET result == Format06d(BigMod(acc, 1000000))
    IN  IF sp THEN Grouped(result) ELSE result

\* six_digit_id as a function of its arguments
six_digit_id(str, sp) ==
    FormatId(HashFrom(OFFSET64, truncate_utf8(str, MAX_BYTES), 1), sp)

\* ------------------------------------------------------------ inputs
\* One character of each UTF-8 length: "a", e-acute, the euro sign, U+1F600.
Alphabet == {97, 233, 8364, 128512}

\* A str that encodes: code points, none of them a surrogate.
WellFormed(str) ==
    \A i \in 1..Len(str) :
        str[i] >= 0 /\ str[i] <= 1114111 /\ ~(str[i] >= 55296 /\ str[i] <= 57343)

Tails == UNION {[1..n -> Alphabet] : n \in 0..MaxTailLen}

Pad(k) == [i \in 1..k |-> 97]

PadLens == {0} \cup {k \in 0..MAX_BYTES : k >= MAX_BYTES - PadWindow}

\* "hello world!"
Hello1 == <<104, 101, 108, 108, 111, 32, 119, 111, 114, 108, 100, 33>>
Hello2 == Hello1 \o <<33>>
Hello3 == Hello2 \o <<33>>

Inputs ==
    {Hello1, Hello2, Hello3} \cup {Pad(k) \o t : k \in PadLens, t \in Tails}

\* ------------------------------------------------------------ state
VARIABLES
    s,           \* the input string
    max_bytes,   \* truncate_utf8's max_bytes of the call made
    spaced,      \* six_digit_id's spaced
    pc,          \* "idle", "truncated" (truncate_utf8 returned), "loop", "done"
    bytes_data,  \* what truncate_utf8 returned
    idx,         \* the number of bytes of bytes_data the loop has consumed
    h,           \* the accumulator
    result       \* what six_digit_id returned

vars == <<s, max_bytes, spaced, pc, bytes_data, idx, h, result>>

Init ==
    /\ s \in Inputs
    /\ max_bytes = 0
    /\ spaced = FALSE
    /\ pc = "idle"
    /\ bytes_data = <<>>
    /\ idx = 0
    /\ h = <<>>
    /\ result = <<>>

\* A call truncate_utf8(s, mb).
CallTruncate ==
    /\ pc = "idle"
    /\ \E mb \in 0..MaxBytesArg :
        /\ max_bytes' = mb
        /\ bytes_data' = truncate_utf8(s, mb)
    /\ pc' = "truncated"
    /\ UNCHANGED <<s, spaced, idx, h, result>>

\* A call six_digit_id(s, spaced=sp), up to the loop: lines 96-103.
CallSixDigitId ==
    /\ pc = "idle"
    /\ \E sp \in BOOLEAN : spaced' = sp
    /\ max_bytes' = MAX_BYTES
    /\ bytes_data' = truncate_utf8(s, MAX_BYTES)
    /\ h' = OFFSET64
    /\ idx' = 0
    /\ pc' = "loop"
    /\ UNCHANGED <<s, result>>

\* One iteration of "for byte in bytes_data": lines 104-108.
HashStep ==
    /\ pc = "loop"
    /\ idx < Len(bytes_data)
    /\ h' = FnvStep(h, bytes_data[idx + 1])
    /\ idx' = idx + 1
    /\ UNCHANGED <<s, max_bytes, spaced, pc, bytes_data, result>>

\* The loop is over; format and return: lines 110-115.
Return ==
    /\ pc = "loop"
    /\ idx = Len(bytes_data)
    /\ result' = FormatId(h, spaced)
    /\ pc' = "done"
    /\ UNCHANGED <<s, max_bytes, spaced, bytes_data, idx, h>>

Next == CallTruncate \/ CallSixDigitId \/ HashStep \/ Return

Spec == Init /\ [][Next]_vars

\* ------------------------------------------------------------ properties
\* truncate_utf8 has returned, for a well-formed input.
Returned == pc # "idle" /\ WellFormed(s)

IsPrefix(a, b) == Len(a) <= Len(b) /\ a = SubSeq(b, 1, Len(a))

\* The length of the longest prefix of enc, of at most mb bytes, that decodes.
LongestValidLen(enc, mb) ==
    LET ok == {n \in 0..Min(mb, Len(enc)) : Decodes(SubSeq(enc, 1, n))}
    IN  CHOOSE n \in ok : \A m \in ok : m <= n

\* The position of the last byte below 0x80 among the first mb bytes of enc, or 0.
LastAscii(enc, mb) ==
    LET at == {0} \cup {i \in 1..Min(mb, Len(enc)) : enc[i] < 128}
    IN  CHOOSE i \in at : \A j \in at : j <= i

\* x is a value in [0, 2^64)
InU64(x) == Len(x) <= 8 /\ \A i \in 1..Len(x) : x[i] >= 0 /\ x[i] < Base

\* x mod 2^64
Low64(x) == Norm(SubSeq(x, 1, Min(8, Len(x))))

\* 0xcbf29ce484222325 = 14695981039346656037
StandardOffsetBasis == <<37, 35, 34, 132, 228, 156, 242, 203>>

\* 0x100000001b3 = 1099511628211
StandardPrime == <<179, 1, 0, 0, 0, 1>>

IsDigit(c) == c >= 48 /\ c <= 57

RECURSIVE DigitsValue(_, _)
\* The number the first n characters of a digit string denote.
DigitsValue(str, n) ==
    IF n = 0 THEN 0 ELSE DigitsValue(str, n - 1) * 10 + (str[n] - 48)

\* C1: truncate_utf8(s, max_bytes) returns the longest prefix of s's UTF-8
\* encoding that is valid UTF-8 and at most max_bytes long.
C1_LongestValidPrefix ==
    Returned =>
        LET enc == Encode(s)
        IN  bytes_data = SubSeq(enc, 1, LongestValidLen(enc, max_bytes))

\* C2: two strings of at least 32 bytes whose encodings agree on their first 32
\* bytes get the same six_digit_id, for either value of spaced; in particular
\* a suffix appended to a string of at least 32 bytes changes nothing.
C2_CrossLengthStability ==
    (pc = "done" /\ Len(Encode(s)) >= MAX_BYTES) =>
        /\ \A u \in Inputs :
            (/\ Len(Encode(u)) >= MAX_BYTES
             /\ SubSeq(Encode(u), 1, MAX_BYTES) = SubSeq(Encode(s), 1, MAX_BYTES))
                => six_digit_id(u, spaced) = result
        /\ \A t \in Tails : six_digit_id(s \o t, spaced) = result

\* C3: what truncate_utf8 returns (and the loop hashes) is a prefix of the
\* input's encoding, at most max_bytes long, that is valid UTF-8 and ends
\* where a character of the input ends.
C3_NoMidCharacterSplit ==
    Returned =>
        /\ Len(bytes_data) <= max_bytes
        /\ IsPrefix(bytes_data, Encode(s))
        /\ Decodes(bytes_data)
        /\ \E k \in 0..Len(s) : bytes_data = Encode(SubSeq(s, 1, k))

C3_Witness ==
    /\ pc = "truncated"
    /\ Len(Encode(s)) > max_bytes
    /\ max_bytes > 0
    /\ Encode(s)[max_bytes] >= 128
    /\ IsContinuation(Encode(s)[max_bytes + 1])
    /\ bytes_data # <<>>

\* C4: with spaced=False six_digit_id returns exactly 6 decimal digits, the
\* zero-padded value of the hash mod 1,000,000; with spaced=True it returns
\* 8 characters "DD DD DD".
C4_OutputShape ==
    pc = "done" =>
        IF spaced
        THEN /\ Len(result) = 8
             /\ \A i \in {1, 2, 4, 5, 7, 8} : IsDigit(result[i])
             /\ result[3] = 32 /\ result[6] = 32
        ELSE /\ Len(result) = 6
             /\ \A i \in 1..6 : IsDigit(result[i])
             /\ DigitsValue(result, 6) = BigMod(h, 1000000)

C4_Witness ==
    /\ pc = "done"
    /\ ~spaced
    /\ result[1] = 48
    /\ Len(Encode(s)) > MAX_BYTES

\* C5: the hash is the canonical FNV-1a 64-bit hash: the accumulator starts at
\* the standard offset basis 0xcbf29ce484222325 and is multiplied by the prime
\* 0x100000001b3, so the hash of the empty byte sequence is that offset basis.
C5_CanonicalFnv1a ==
    /\ PRIME64 = StandardPrime
    /\ (pc = "loop" /\ idx = 0) => h = StandardOffsetBasis
    /\ (pc = "done" /\ bytes_data = <<>>) => h = StandardOffsetBasis

\* C6: the known vectors: "hello world!" gives "25 91 44" and "259144",
\* "hello world!!" gives "53 22 67" and "532267", "hello world!!!" gives
\* "09 06 22".
C6_KnownVectors ==
    pc = "done" =>
        /\ (s = Hello1 /\ spaced) => result = <<50, 53, 32, 57, 49, 32, 52, 52>>
        /\ (s = Hello1 /\ ~spaced) => result = <<50, 53, 57, 49, 52, 52>>
        /\ (s = Hello2 /\ spaced) => result = <<53, 51, 32, 50, 50, 32, 54, 55>>
        /\ (s = Hello2 /\ ~spaced) => result = <<53, 51, 50, 50, 54, 55>>
        /\ (s = Hello3 /\ spaced) => result = <<48, 57, 32, 48, 54, 32, 50, 50>>

C6_Witness == pc = "done" /\ s = Hello3 /\ spaced

\* C7: a string whose encoding is at most max_bytes long (exactly max_bytes
\* and empty included) is returned whole by truncate_utf8, and every byte of
\* it is hashed, in order.
C7_ShortInputKept ==
    (Returned /\ Len(Encode(s)) <= max_bytes) =>
        /\ bytes_data = Encode(s)
        /\ pc = "done" => idx = Len(Encode(s))

C7_Witness ==
    /\ Returned
    /\ max_bytes > 0
    /\ Len(Encode(s)) = max_bytes
    /\ Encode(s)[max_bytes] >= 128
    /\ bytes_data = Encode(s)

\* C8: the spaced output is the plain output with one space after its 2nd and
\* its 4th character: without the two spaces it is six_digit_id(s, spaced=False).
C8_SpacedIsPlainGrouped ==
    (pc = "done" /\ spaced) =>
        /\ Len(result) = 8
        /\ result[3] = 32 /\ result[6] = 32
        /\ <<result[1], result[2], result[4], result[5], result[7], result[8]>>
               = six_digit_id(s, FALSE)

C8_Witness ==
    /\ pc = "done"
    /\ spaced
    /\ Len(result) = 8
    /\ result[4] # result[7]
    /\ Len(Encode(s)) > MAX_BYTES

\* C9: the loop consumes the bytes in order, and after each byte b the
\* accumulator is ((h_prev XOR b) * 1099511628211) mod 2^64; it is in
\* [0, 2^64) before and after every iteration.
C9_AccumulatorStep ==
    [][(pc = "loop" /\ pc' = "loop") =>
          /\ idx < Len(bytes_data)
          /\ idx' = idx + 1
          /\ InU64(h) /\ InU64(h')
          /\ h' = Low64(BigMul(BigXor(h, FromInt(bytes_data[idx + 1])),
                               StandardPrime))]_vars

C9_Witness == pc = "loop" /\ idx = MAX_BYTES /\ Len(h) = 8

====
